---- MODULE Spec2Model ----
(***************************************************************************)
(* mqtt2loxone (src/index.js): a bridge between an MQTT bus and a Loxone   *)
(* controller.  The two event handlers of the program are modelled:        *)
(*   mqttClient.on('message')  bus message  -> UDP datagrams / HTTP GETs   *)
(*   udpServer.on('message')   UDP datagram -> bus publish                 *)
(*                                                                         *)
(* JavaScript strings are sequences of one-character strings, so that      *)
(* split, includes, toLowerCase, parseInt and template literals are        *)
(* computed the way the code computes them.  A JavaScript primitive is a   *)
(* record [t, s, n]: t is its type tag, s its characters when it is a      *)
(* string, n its value when it is a number (1/0 for true/false).           *)
(* Numbers are integers or NaN; payloads hold no nested objects.           *)
(***************************************************************************)
EXTENDS Integers, Sequences, FiniteSets, TLC

VARIABLES subscriptions, running, event, emitted, published, raised,
          pending, completed

vars == <<subscriptions, running, event, emitted, published, raised,
          pending, completed>>

(***************************************************************************)
(* Bounds of the model.                                                    *)
(***************************************************************************)
\* largest number of keys of a bus payload object
MaxFields == 2
\* largest number of ';'-separated fields of a datagram after the topic
MaxParts == 5
\* largest number of transmissions in flight
MaxInflight == 3

(***************************************************************************)
(* JavaScript values.                                                      *)
(***************************************************************************)
Str(s) == [t |-> "str", s |-> s, n |-> 0]
Num(n) == [t |-> "num", s |-> <<>>, n |-> n]
Bool(b) == [t |-> "bool", s |-> <<>>, n |-> IF b THEN 1 ELSE 0]
Null == [t |-> "null", s |-> <<>>, n |-> 0]
Undefined == [t |-> "undef", s |-> <<>>, n |-> 0]
NaN == [t |-> "nan", s |-> <<>>, n |-> 0]

Digits == <<"0", "1", "2", "3", "4", "5", "6", "7", "8", "9">>

RECURSIVE NatToStr(_)
NatToStr(n) ==
    IF n < 10 THEN <<Digits[n + 1]>>
    ELSE NatToStr(n \div 10) \o <<Digits[(n % 10) + 1]>>

\* Number.prototype.toString for an integer
NumToStr(n) == IF n < 0 THEN <<"-">> \o NatToStr(0 - n) ELSE NatToStr(n)

\* String(v), as also applied by a template literal `${v}`, by String(v) and by +
String(v) ==
    CASE v.t = "str" -> v.s
      [] v.t = "num" -> NumToStr(v.n)
      [] v.t = "bool" -> IF v.n = 1 THEN <<"t", "r", "u", "e">>
                         ELSE <<"f", "a", "l", "s", "e">>
      [] v.t = "null" -> <<"n", "u", "l", "l">>
      [] v.t = "undef" -> <<"u", "n", "d", "e", "f", "i", "n", "e", "d">>
      [] v.t = "nan" -> <<"N", "a", "N">>

UpperChars == <<"A", "B", "C", "D", "E", "F", "G", "H", "I", "J", "K", "L", "M",
                "N", "O", "P", "Q", "R", "S", "T", "U", "V", "W", "X", "Y", "Z">>
LowerChars == <<"a", "b", "c", "d", "e", "f", "g", "h", "i", "j", "k", "l", "m",
                "n", "o", "p", "q", "r", "s", "t", "u", "v", "w", "x", "y", "z">>

LowerChar(c) ==
    IF \E i \in 1..26 : UpperChars[i] = c
    THEN LowerChars[CHOOSE i \in 1..26 : UpperChars[i] = c]
    ELSE c

\* String.prototype.toLowerCase
toLowerCase(s) == [i \in 1..Len(s) |-> LowerChar(s[i])]

RECURSIVE SplitAcc(_, _, _, _, _)
SplitAcc(s, sep, i, cur, acc) ==
    IF i > Len(s) THEN Append(acc, cur)
    ELSE IF s[i] = sep THEN SplitAcc(s, sep, i + 1, <<>>, Append(acc, cur))
    ELSE SplitAcc(s, sep, i + 1, Append(cur, s[i]), acc)

\* String.prototype.split on a one-character separator
split(s, sep) == SplitAcc(s, sep, 1, <<>>, <<>>)

\* String.prototype.includes
includes(hay, needle) ==
    \E i \in 0..(Len(hay) - Len(needle)) :
        SubSeq(hay, i + 1, i + Len(needle)) = needle

\* parts[i] of a JavaScript array of strings (0-based): undefined past its end
At(parts, i) == IF i < Len(parts) THEN Str(parts[i + 1]) ELSE Undefined

(***************************************************************************)
(* Configuration (cfg), read once at startup from config.json.            *)
(***************************************************************************)
cfgUsername == <<"u">>
cfgPassword == <<"p">>
cfgHost == <<"l", "o", "x">>
cfgPort == Num(80)

\* a field definition of a subscription
Field(name, type) == [name |-> name, type |-> type]

\* a subscription: fields.has is FALSE when the rule has no `fields` key
Rule(topic, identifier, has, list) ==
    [topic |-> topic, identifier |-> identifier,
     fields |-> [has |-> has, list |-> list]]

sTemp == <<"t", "e", "m", "p">>
sLabel == <<"l", "a", "b", "e", "l">>
sVal == <<"v", "a", "l">>
sName == <<"n", "a", "m", "e">>
sString == <<"s", "t", "r", "i", "n", "g">>
sNumber == <<"n", "u", "m", "b", "e", "r">>

tKitchen == <<"k", "i", "t", "c", "h", "e", "n">>
tBath == <<"b", "a", "t", "h">>
tAttic == <<"a", "t", "t", "i", "c">>
tX == <<"x">>

\* the subscription tables the program is started with
Tables ==
    { <<>>,
      << Rule(<<"h", "o", "m", "e", "/">> \o tKitchen, Str(<<"K", "1">>), FALSE, <<>>),
         Rule(tBath, Undefined, TRUE,
              <<Field(sLabel, sString), Field(sTemp, sNumber)>>),
         Rule(tAttic \o <<"/", "#">>, Str(<<>>), FALSE, <<>>) >>,
      << Rule(tKitchen, Str(<<>>), TRUE,
              <<Field(sTemp, sNumber), Field(sLabel, sString)>>),
         Rule(tBath, Str(<<"B", "2">>), TRUE, <<Field(sTemp, sString)>>),
         Rule(tAttic, Undefined, FALSE, <<>>) >> }

\* cfg.loxone.subscriptions.find(item => item.topic.includes(topic)):
\* the index of the first matching rule, 0 when find returns undefined
find(subs, topic) ==
    IF \E i \in 1..Len(subs) : includes(subs[i].topic, topic)
    THEN CHOOSE i \in 1..Len(subs) :
            /\ includes(subs[i].topic, topic)
            /\ \A j \in 1..(i - 1) : ~includes(subs[j].topic, topic)
    ELSE 0

\* `subscription && subscription.identifier !== ''`
needsIdentifier(subs, topic) ==
    /\ find(subs, topic) # 0
    /\ subs[find(subs, topic)].identifier # Str(<<>>)

(***************************************************************************)
(* Emitters.  An emission is the transmission the emitter initiates:       *)
(* ch is "udp" (udpClient.send) or "http" (fetch), f and v the field name  *)
(* and the value the emitter composed, data the datagram text or the URL.  *)
(***************************************************************************)
Emission(ch, f, v, data) == [ch |-> ch, f |-> f, v |-> v, data |-> data]

\* the boolean(ish) cast of udpMessage; value is parts[1], a string or undefined
castValue(value) ==
    IF value = Str(<<"t", "r", "u", "e">>) \/ value = Str(<<"y", "e", "s">>)
    THEN Num(1)
    ELSE IF \/ value = Str(<<"f", "a", "l", "s", "e">>)
            \/ value = Str(<<"n", "o">>)
            \/ value = Str(<<"n", "u", "l", "l">>)
            \/ value = Null
    THEN Num(0)
    ELSE value

\* function udpMessage (topic, message)
udpMessage(subs, topic, message) ==
    LET parts == split(message, "=")
        param0 == At(parts, 0)
        value0 == At(parts, 1)
        param == IF needsIdentifier(subs, topic)
                 THEN String(subs[find(subs, topic)].identifier)
                          \o <<"_">> \o String(param0)
                 ELSE String(param0)
        value == castValue(value0)
        datagram == toLowerCase(param \o <<"=">> \o String(value))
    IN Emission("udp", param, String(value), datagram)

RECURSIVE encodeFrom(_, _)
encodeFrom(s, i) ==
    IF i > Len(s) THEN <<>>
    ELSE (IF s[i] = " " THEN <<"%", "2", "0">> ELSE <<s[i]>>) \o encodeFrom(s, i + 1)

\* encodeurl(url): percent-encodes the characters a URL may not hold; of the
\* characters of this model, the space
encodeurl(s) == encodeFrom(s, 1)

\* function apiMessage (topic, name, message); name is a string or undefined
apiMessage(subs, topic, name0, message) ==
    LET name == IF needsIdentifier(subs, topic)
                THEN String(subs[find(subs, topic)].identifier)
                         \o <<" ", "-", " ">> \o String(name0)
                ELSE String(name0)
        url == encodeurl(<<"h", "t", "t", "p", ":", "/", "/">> \o cfgUsername
                         \o <<":">> \o cfgPassword \o <<"@">> \o cfgHost
                         \o <<":">> \o String(cfgPort)
                         \o <<"/", "d", "e", "v", "/", "s", "p", "s", "/", "i", "o", "/">>
                         \o name \o <<"/">> \o message)
    IN Emission("http", name, message, url)

(***************************************************************************)
(* Bus payloads.  A payload is given by what JSON.parse makes of its text: *)
(* kind "invalid" (JSON.parse throws a SyntaxError), "bare" (a string,     *)
(* number, boolean or null) or "obj" (an object, as the sequence of its    *)
(* entries in Object.entries order).                                       *)
(***************************************************************************)
Invalid == [kind |-> "invalid", bare |-> Undefined, ents |-> <<>>]
Bare(v) == [kind |-> "bare", bare |-> v, ents |-> <<>>]
Obj(ents) == [kind |-> "obj", bare |-> Undefined, ents |-> ents]
Entry(k, v) == [k |-> k, v |-> v]

\* `key in payload`
hasKey(ents, key) == \E i \in 1..Len(ents) : ents[i].k = key

\* payload[key]: undefined when the object has no such key
get(ents, key) ==
    IF hasKey(ents, key)
    THEN ents[CHOOSE i \in 1..Len(ents) : ents[i].k = key].v
    ELSE Undefined

\* singleField without the typeof test: every val goes to udpMessage
singleFieldUdpOnly(subs, topic, ents) ==
    <<udpMessage(subs, topic,
                 String(get(ents, sName)) \o <<"=">> \o String(get(ents, sVal)))>>

\* the single-field branch, `if ('val' in payload)`
singleField(subs, topic, ents) ==
    IF get(ents, sVal).t = "str"
    THEN <<apiMessage(subs, topic, get(ents, sName), get(ents, sVal).s)>>
    ELSE <<udpMessage(subs, topic,
                      String(get(ents, sName)) \o <<"=">> \o String(get(ents, sVal)))>>

\* `for (const field of subscription.fields)`
definedFields(subs, topic, ents, fields) ==
    [i \in 1..Len(fields) |->
        IF fields[i].type = sString
        THEN apiMessage(subs, topic, Str(fields[i].name),
                        String(get(ents, fields[i].name)))
        ELSE udpMessage(subs, topic,
                        fields[i].name \o <<"=">> \o String(get(ents, fields[i].name)))]

\* availableFields without its `value != null` test
RECURSIVE availableFieldsNullSent(_, _, _, _)
availableFieldsNullSent(subs, topic, ents, i) ==
    IF i > Len(ents) THEN <<>>
    ELSE (IF ents[i].v.t = "str"
          THEN <<apiMessage(subs, topic, Str(ents[i].k), ents[i].v.s)>>
          ELSE <<udpMessage(subs, topic,
                            ents[i].k \o <<"=">> \o String(ents[i].v))>>)
         \o availableFieldsNullSent(subs, topic, ents, i + 1)

\* `for (const [key, value] of entries)`
RECURSIVE availableFields(_, _, _, _)
availableFields(subs, topic, ents, i) ==
    IF i > Len(ents) THEN <<>>
    ELSE (IF ents[i].v.t = "str"
          THEN <<apiMessage(subs, topic, Str(ents[i].k), ents[i].v.s)>>
          ELSE IF ents[i].v.t \notin {"null", "undef"}
          THEN <<udpMessage(subs, topic,
                            ents[i].k \o <<"=">> \o String(ents[i].v))>>
          ELSE <<>>)
         \o availableFields(subs, topic, ents, i + 1)

\* the multi-field branch
multiField(subs, topic, ents) ==
    IF find(subs, topic) # 0 /\ subs[find(subs, topic)].fields.has
    THEN definedFields(subs, topic, ents, subs[find(subs, topic)].fields.list)
    ELSE availableFields(subs, topic, ents, 1)

\* mqttClient.on('message', (topic, payload, msg) => ...): the emissions the
\* handler initiates, in order, and the exception that escapes it ("none"
\* when it returns).  JSON.parse throws on text that is not JSON; the `in`
\* operator throws a TypeError when its right operand is not an object.
onMqttMessage(subs, topic, payload) ==
    IF payload.kind = "invalid"
    THEN [ems |-> <<>>, raised |-> "SyntaxError"]
    ELSE IF payload.kind = "bare"
    THEN [ems |-> IF payload.bare.t = "str"
                  THEN <<udpMessage(subs, topic, payload.bare.s)>>
                  ELSE <<>>,
          raised |-> "TypeError"]
    ELSE [ems |-> IF hasKey(payload.ents, sVal)
                  THEN singleField(subs, topic, payload.ents)
                  ELSE multiField(subs, topic, payload.ents),
          raised |-> "none"]

(***************************************************************************)
(* UDP server: decoding of a datagram.  Numeric tokens are decimal         *)
(* integers: the tokens of the model hold no '.', exponent or radix        *)
(* prefix, and no quote or backslash.                                      *)
(***************************************************************************)
isSpace(c) == c \in {" ", "\n", "\t", "\r"}
isDigit(c) == \E i \in 1..10 : Digits[i] = c
digitValue(c) == (CHOOSE i \in 1..10 : Digits[i] = c) - 1

RECURSIVE trimStart(_)
trimStart(s) == IF s # <<>> /\ isSpace(Head(s)) THEN trimStart(Tail(s)) ELSE s

RECURSIVE trimEnd(_)
trimEnd(s) ==
    IF s # <<>> /\ isSpace(s[Len(s)]) THEN trimEnd(SubSeq(s, 1, Len(s) - 1)) ELSE s

\* String.prototype.trim
trim(s) == trimEnd(trimStart(s))

\* the length of the longest prefix of s made of digits
RECURSIVE digitRun(_)
digitRun(s) == IF s # <<>> /\ isDigit(Head(s)) THEN 1 + digitRun(Tail(s)) ELSE 0

\* the value of a sequence of digits
RECURSIVE digitsValue(_)
digitsValue(s) ==
    IF s = <<>> THEN 0
    ELSE 10 * digitsValue(SubSeq(s, 1, Len(s) - 1)) + digitValue(s[Len(s)])

\* parseInt(s): skips leading white space, reads a sign and the longest run
\* of digits, and is NaN when there is no digit
parseInt(s) ==
    LET t == trimStart(s)
        signed == t # <<>> /\ Head(t) \in {"-", "+"}
        body == IF signed THEN Tail(t) ELSE t
        k == digitRun(body)
        n == digitsValue(SubSeq(body, 1, k))
    IN IF k = 0 THEN NaN
       ELSE IF signed /\ Head(t) = "-" THEN Num(0 - n) ELSE Num(n)

\* Number(s): white space is trimmed, the empty string is 0, a signed run of
\* digits is its value, anything else is NaN
Number(s) ==
    LET t == trim(s)
        signed == t # <<>> /\ Head(t) \in {"-", "+"}
        body == IF signed THEN Tail(t) ELSE t
        n == digitsValue(body)
    IN IF t = <<>> THEN Num(0)
       ELSE IF body = <<>> \/ digitRun(body) # Len(body) THEN NaN
       ELSE IF signed /\ Head(t) = "-" THEN Num(0 - n) ELSE Num(n)

\* isNaN(s)
isNaN(s) == Number(s) = NaN

\* message.match(regexLogger) != null, for
\* /^[0-9]{4}-[0-9]{2}-[0-9]{2} [0-9]{2}:[0-9]{2}:[0-9]{2};.*$/
regexLogger(s) ==
    /\ Len(s) >= 20
    /\ \A i \in {1, 2, 3, 4, 6, 7, 9, 10, 12, 13, 15, 16, 18, 19} : isDigit(s[i])
    /\ s[5] = "-" /\ s[8] = "-" /\ s[11] = " "
    /\ s[14] = ":" /\ s[17] = ":" /\ s[20] = ";"
    /\ \A i \in 21..Len(s) : s[i] \notin {"\n", "\r"}

\* messageParts with splice(1): only the first field of a logger line dropped
messagePartsSpliceOne(message) ==
    LET parts == split(message, ";")
    IN IF regexLogger(message) THEN SubSeq(parts, 2, Len(parts)) ELSE parts

\* the message parts the fields are read from: messageParts.splice(2) for a
\* logger line
messageParts(message) ==
    LET parts == split(message, ";")
    IN IF regexLogger(message) THEN SubSeq(parts, 3, Len(parts)) ELSE parts

\* the coercion of the value token into parsedValue
parsedValue(value) ==
    IF value = <<>> THEN Str(<<>>)
    ELSE IF value = <<"t", "r", "u", "e">> THEN Num(1)
    ELSE IF value = <<"f", "a", "l", "s", "e">> THEN Num(0)
    ELSE IF ~isNaN(value) THEN Number(value)
    ELSE Str(value)

\* JSON.stringify of a number or of a string that needs no escaping
stringifyValue(v) ==
    IF v.t = "str" THEN <<"\"">> \o v.s \o <<"\"">> ELSE String(v)

\* JSON.stringify of { ts, val } and of { ts, val, name }
stringifyPayload(ts, val, name) ==
    <<"{", "\"", "t", "s", "\"", ":">> \o NumToStr(ts)
        \o <<",", "\"", "v", "a", "l", "\"", ":">> \o stringifyValue(val)
        \o (IF name # Null
            THEN <<",", "\"", "n", "a", "m", "e", "\"", ":">> \o stringifyValue(name)
            ELSE <<>>)
        \o <<"}">>

sJson == <<"j", "s", "o", "n">>
sJsonRaw == <<"j", "s", "o", "n", "_", "r", "a", "w">>

\* onUdpMessage with retain true for every token but "false"
onUdpMessageRetainNotFalse(raw, now) ==
    LET parts == messageParts(trim(raw))
        topic == At(parts, 0)
        value == IF Len(parts) > 1 THEN parts[2] ELSE <<>>
        qos == IF Len(parts) > 2 THEN parseInt(parts[3]) ELSE Num(0)
        retain == IF Len(parts) > 3 THEN parts[4] # <<"f", "a", "l", "s", "e">> ELSE FALSE
        name == IF Len(parts) > 4 THEN Str(parts[5]) ELSE Null
        mode == IF Len(parts) > 5 THEN parts[6] ELSE sJsonRaw
        payload == IF mode = sJson
                   THEN Str(stringifyPayload(now, parsedValue(value), name))
                   ELSE parsedValue(value)
    IN [topic |-> topic, payload |-> payload, qos |-> qos, retain |-> retain]

\* onUdpMessage with `payload = JSON.stringify(payload)` in the json_raw case
onUdpMessageRawSerialized(raw, now) ==
    LET parts == messageParts(trim(raw))
        topic == At(parts, 0)
        value == IF Len(parts) > 1 THEN parts[2] ELSE <<>>
        qos == IF Len(parts) > 2 THEN parseInt(parts[3]) ELSE Num(0)
        retain == IF Len(parts) > 3 THEN parts[4] = <<"t", "r", "u", "e">> ELSE FALSE
        name == IF Len(parts) > 4 THEN Str(parts[5]) ELSE Null
        mode == IF Len(parts) > 5 THEN parts[6] ELSE sJsonRaw
        payload == IF mode = sJson
                   THEN Str(stringifyPayload(now, parsedValue(value), name))
                   ELSE IF mode = sJsonRaw
                   THEN Str(stringifyValue(parsedValue(value)))
                   ELSE parsedValue(value)
    IN [topic |-> topic, payload |-> payload, qos |-> qos, retain |-> retain]

\* udpServer.on('message', (message, remote) => ...): the arguments of the
\* one mqttClient.publish call the handler makes; now is Date.now()
onUdpMessage(raw, now) ==
    LET parts == messageParts(trim(raw))
        topic == At(parts, 0)
        value == IF Len(parts) > 1 THEN parts[2] ELSE <<>>
        qos == IF Len(parts) > 2 THEN parseInt(parts[3]) ELSE Num(0)
        retain == IF Len(parts) > 3 THEN parts[4] = <<"t", "r", "u", "e">> ELSE FALSE
        name == IF Len(parts) > 4 THEN Str(parts[5]) ELSE Null
        mode == IF Len(parts) > 5 THEN parts[6] ELSE sJsonRaw
        payload == IF mode = sJson
                   THEN Str(stringifyPayload(now, parsedValue(value), name))
                   ELSE parsedValue(value)
    IN [topic |-> topic, payload |-> payload, qos |-> qos, retain |-> retain]

(***************************************************************************)
(* Inputs: the bus messages and the datagrams that arrive.                 *)
(***************************************************************************)
sWarm == <<"w", "a", "r", "m">>

Topics == {tKitchen, tBath, tAttic, tX}
Keys == {sVal, sName, sTemp, sLabel}
Values == {Num(21), Bool(TRUE), Str(sWarm), Str(<<"O", "n">>), Null}
Entries == {Entry(k, v) : k \in Keys, v \in Values}

\* objects of at most MaxFields keys, all different
Objects ==
    UNION { { e \in [1..n -> Entries] :
                \A i, j \in 1..n : i # j => e[i].k # e[j].k } : n \in 0..MaxFields }

BareValues ==
    { Str(sTemp \o <<"=", "2", "1">>), Str(<<"L", "a", "m", "p", "=", "Y", "e", "s">>),
      Str(<<"o", "n">>), Num(21), Bool(TRUE), Null }

Payloads == {Invalid} \cup {Bare(v) : v \in BareValues} \cup {Obj(e) : e \in Objects}

sTrue == <<"t", "r", "u", "e">>
sFalse == <<"f", "a", "l", "s", "e">>
sSensor == <<"s", "e", "n", "s", "o", "r", "/", "t", "e", "m", "p">>
loggerPrefix ==
    <<"2", "0", "2", "4", "-", "0", "1", "-", "0", "1", " ",
      "0", "0", ":", "0", "0", ":", "0", "0", ";", "5">>

\* the tokens of the field at position i of a datagram (the topic is at 0)
Tokens(i) ==
    CASE i = 1 -> {<<>>, sTrue, sFalse, <<"2", "1">>, <<"o", "n">>, <<" ">>}
      [] i = 2 -> {<<"1">>, <<"2">>, <<"7">>, <<"a", "b", "c">>}
      [] i = 3 -> {sTrue, sFalse, <<"1">>}
      [] i = 4 -> {<<>>, <<"n">>}
      [] i = 5 -> {sJson, sJsonRaw, <<"r", "a", "w">>}
      [] OTHER -> {<<"x">>}

\* the fields i..n of a datagram, each after its ';'
RECURSIVE Rest(_, _)
Rest(i, n) ==
    IF i > n THEN {<<>>}
    ELSE { <<";">> \o t \o r : t \in Tokens(i), r \in Rest(i + 1, n) }

Lines == { topic \o rest : topic \in {<<>>, sSensor},
                           rest \in UNION { Rest(1, n) : n \in 0..MaxParts } }

Datagrams ==
    Lines \cup { loggerPrefix \o <<";">> \o l : l \in Lines }
          \cup { loggerPrefix, <<" ">> \o sSensor \o <<";", "1", "\n">>,
                 loggerPrefix \o <<";", " ">> \o sSensor \o <<";", "1", "\n">> }

\* the values of Date.now()
Clock == {1000, 1001}

(***************************************************************************)
(* The program.  event is the event the event loop has dispatched and      *)
(* whose handler has run (kind "none" between two events); emitted and     *)
(* published are the emissions and the bus publishes that handler          *)
(* initiated, raised the exception that escaped it.  pending holds the     *)
(* transmissions in flight: a UDP send with the socket created for it, or  *)
(* an HTTP request; completed is the transmission whose callback ran in    *)
(* this turn of the event loop.                                            *)
(***************************************************************************)
NoEvent == [kind |-> "none", topic |-> <<>>, payload |-> Invalid, raw |-> <<>>, now |-> 0]
MqttEvent(topic, payload) ==
    [kind |-> "mqtt", topic |-> topic, payload |-> payload, raw |-> <<>>, now |-> 0]
UdpEvent(raw, now) ==
    [kind |-> "udp", topic |-> <<>>, payload |-> Invalid, raw |-> raw, now |-> now]
\* the turn of a callback: kind is "sent" (send callback) or "settled" (fetch)
CallbackEvent(kind) ==
    [kind |-> kind, topic |-> <<>>, payload |-> Invalid, raw |-> <<>>, now |-> 0]

\* the transmission an emitter starts: dgram.createSocket and udpClient.send,
\* or fetch(url)
Transmission(ch) ==
    [ch |-> ch, attempts |-> 1,
     socket |-> IF ch = "udp" THEN "open" ELSE "none", closes |-> 0]

\* the transmissions of the emissions of one handler run, in order
transmit(ems) == [i \in 1..Len(ems) |-> Transmission(ems[i].ch)]

NoCompletion ==
    [ch |-> "none", error |-> FALSE, attempts |-> 0, socket |-> "none",
     closes |-> 0, logged |-> FALSE]

\* sendCallback rethrowing the error it was given
sendCallbackThrows(t, error) ==
    [done |-> [ch |-> t.ch, error |-> error, attempts |-> t.attempts,
               socket |-> "closed", closes |-> t.closes + 1, logged |-> error],
     started |-> <<>>,
     raised |-> IF error THEN "Error" ELSE "none"]

\* sendCallback closing the socket only after a send without error
sendCallbackCloseOnSuccess(t, error) ==
    [done |-> [ch |-> t.ch, error |-> error, attempts |-> t.attempts,
               socket |-> IF error THEN t.socket ELSE "closed",
               closes |-> IF error THEN t.closes ELSE t.closes + 1,
               logged |-> error],
     started |-> <<>>,
     raised |-> "none"]

\* the callback of udpClient.send: logs the error if there is one and closes
\* the socket; it starts no transmission and throws nothing
sendCallback(t, error) ==
    [done |-> [ch |-> t.ch, error |-> error, attempts |-> t.attempts,
               socket |-> "closed", closes |-> t.closes + 1, logged |-> error],
     started |-> <<>>,
     raised |-> "none"]

\* fetchCatch issuing the request again after a failure
fetchCatchRetries(t, error) ==
    [done |-> [ch |-> t.ch, error |-> error, attempts |-> t.attempts,
               socket |-> t.socket, closes |-> t.closes, logged |-> error],
     started |-> IF error THEN <<[t EXCEPT !.attempts = @ + 1]>> ELSE <<>>,
     raised |-> "none"]

\* fetch(url).catch(...): logs the error if the request failed
fetchCatch(t, error) ==
    [done |-> [ch |-> t.ch, error |-> error, attempts |-> t.attempts,
               socket |-> t.socket, closes |-> t.closes, logged |-> error],
     started |-> <<>>,
     raised |-> "none"]

\* s without its i-th element
Remove(s, i) == SubSeq(s, 1, i - 1) \o SubSeq(s, i + 1, Len(s))

Init ==
    /\ subscriptions \in Tables
    /\ running = TRUE
    /\ event = NoEvent
    /\ emitted = <<>>
    /\ published = <<>>
    /\ raised = "none"
    /\ pending = <<>>
    /\ completed = NoCompletion

\* a bus message arrives: mqttClient.on('message') runs
MqttMessage(topic, payload) ==
    /\ running
    /\ event.kind = "none"
    /\ Len(pending) + Len(onMqttMessage(subscriptions, topic, payload).ems) <= MaxInflight
    /\ event' = MqttEvent(topic, payload)
    /\ emitted' = onMqttMessage(subscriptions, topic, payload).ems
    /\ raised' = onMqttMessage(subscriptions, topic, payload).raised
    /\ pending' = pending \o transmit(emitted')
    /\ UNCHANGED <<subscriptions, running, published, completed>>

\* a datagram arrives: udpServer.on('message') runs
UdpMessage(raw, now) ==
    /\ running
    /\ event.kind = "none"
    /\ event' = UdpEvent(raw, now)
    /\ published' = <<onUdpMessage(raw, now)>>
    /\ UNCHANGED <<subscriptions, running, emitted, raised, pending, completed>>

\* the send of the i-th transmission in flight completes, with or without
\* an error: the callback of udpClient.send runs
SendCallback(i, error) ==
    /\ running
    /\ event.kind = "none"
    /\ i \in 1..Len(pending)
    /\ pending[i].ch = "udp"
    /\ event' = CallbackEvent("sent")
    /\ completed' = sendCallback(pending[i], error).done
    /\ pending' = Remove(pending, i) \o sendCallback(pending[i], error).started
    /\ raised' = sendCallback(pending[i], error).raised
    /\ UNCHANGED <<subscriptions, running, emitted, published>>

\* the request of the i-th transmission in flight is answered or fails: the
\* promise of fetch settles
FetchSettled(i, error) ==
    /\ running
    /\ event.kind = "none"
    /\ i \in 1..Len(pending)
    /\ pending[i].ch = "http"
    /\ event' = CallbackEvent("settled")
    /\ completed' = fetchCatch(pending[i], error).done
    /\ pending' = Remove(pending, i) \o fetchCatch(pending[i], error).started
    /\ raised' = fetchCatch(pending[i], error).raised
    /\ UNCHANGED <<subscriptions, running, emitted, published>>

\* HandlerReturns dropping the subscriptions
HandlerReturnsDropsRules ==
    /\ running
    /\ event.kind # "none"
    /\ raised = "none"
    /\ event' = NoEvent
    /\ emitted' = <<>>
    /\ published' = <<>>
    /\ completed' = NoCompletion
    /\ subscriptions' = <<>>
    /\ UNCHANGED <<running, raised, pending>>

\* the handler returns to the event loop
HandlerReturns ==
    /\ running
    /\ event.kind # "none"
    /\ raised = "none"
    /\ event' = NoEvent
    /\ emitted' = <<>>
    /\ published' = <<>>
    /\ completed' = NoCompletion
    /\ UNCHANGED <<subscriptions, running, raised, pending>>

\* the exception leaves the handler: no listener catches it and index.js
\* registers no 'uncaughtException' handler, so the process terminates
UncaughtException ==
    /\ running
    /\ event.kind # "none"
    /\ raised # "none"
    /\ running' = FALSE
    /\ UNCHANGED <<subscriptions, event, emitted, published, raised, pending, completed>>

\* no transmission is in flight
Quiet == pending = <<>>

\* every bus message and datagram of the input sets, each arriving while no
\* transmission is in flight
Next ==
    \/ \E topic \in Topics, payload \in Payloads : Quiet /\ MqttMessage(topic, payload)
    \/ \E raw \in Datagrams, now \in Clock : Quiet /\ UdpMessage(raw, now)
    \/ \E i \in 1..MaxInflight, error \in BOOLEAN : SendCallback(i, error)
    \/ \E i \in 1..MaxInflight, error \in BOOLEAN : FetchSettled(i, error)
    \/ HandlerReturns
    \/ UncaughtException

Spec == Init /\ [][Next]_vars

(***************************************************************************)
(* The same program over a few bus messages and datagrams, which arrive    *)
(* at any time, also while transmissions of earlier events are in flight.  *)
(***************************************************************************)
TopicsIO == {tKitchen, tBath}

PayloadsIO ==
    { Invalid,
      Bare(Str(<<"o", "n">>)),
      Obj(<<>>),
      Obj(<<Entry(sTemp, Num(21))>>),
      Obj(<<Entry(sVal, Str(<<"O", "n">>))>>),
      Obj(<<Entry(sTemp, Num(21)), Entry(sLabel, Str(sWarm))>>) }

DatagramsIO ==
    { <<>>,
      <<"s", ";", "2", "1">>,
      sSensor \o <<";">> \o sTrue \o <<";", "1", ";">> \o sTrue \o <<";", ";">> \o sJson }

NextIO ==
    \/ \E topic \in TopicsIO, payload \in PayloadsIO : MqttMessage(topic, payload)
    \/ \E raw \in DatagramsIO, now \in Clock : UdpMessage(raw, now)
    \/ \E i \in 1..MaxInflight, error \in BOOLEAN : SendCallback(i, error)
    \/ \E i \in 1..MaxInflight, error \in BOOLEAN : FetchSettled(i, error)
    \/ HandlerReturns
    \/ UncaughtException

SpecIO == Init /\ [][NextIO]_vars

(***************************************************************************)
(* Properties.                                                             *)
(***************************************************************************)
\* s ends with suffix
EndsWith(s, suffix) ==
    /\ Len(s) >= Len(suffix)
    /\ SubSeq(s, Len(s) - Len(suffix) + 1, Len(s)) = suffix

\* the handled event is a bus message whose payload is an object
IsObject == event.kind = "mqtt" /\ event.payload.kind = "obj"

\* the handled event is a bus message with a multi-field object
IsMultiField == IsObject /\ ~hasKey(event.payload.ents, sVal)

\* the topic of the handled bus message resolves to a rule with a fields list
HasFieldsList ==
    /\ find(subscriptions, event.topic) # 0
    /\ subscriptions[find(subscriptions, event.topic)].fields.has

\* the value the UDP emitter is specified to send for a payload value
Canonical(v) ==
    IF v \in {Str(sTrue), Str(<<"y", "e", "s">>), Bool(TRUE)} THEN <<"1">>
    ELSE IF v \in {Str(sFalse), Str(<<"n", "o">>), Str(<<"n", "u", "l", "l">>),
                   Bool(FALSE), Null, Undefined} THEN <<"0">>
    ELSE String(v)

\* C1: a bus message whose payload cannot be parsed is dropped: nothing is
\* emitted, the handler does not raise, and the program keeps running.
C1_ParseErrorDropped ==
    (event.kind = "mqtt" /\ event.payload.kind = "invalid")
        => (emitted = <<>> /\ raised = "none" /\ running)

\* C2: a bare string, number or boolean payload produces exactly one
\* emission, a UDP one, named by the topic and carrying the bare value, and
\* the handler does not raise.
C2_BareValueOneDatagram ==
    (/\ event.kind = "mqtt"
     /\ event.payload.kind = "bare"
     /\ event.payload.bare.t \in {"str", "num", "bool"})
        => /\ raised = "none"
           /\ Len(emitted) = 1
           /\ emitted[1].ch = "udp"
           /\ EndsWith(emitted[1].f, event.topic)
           /\ emitted[1].v = Canonical(event.payload.bare)

\* C3: a null value never produces an emission: not as the val of a
\* single-field object, not for a declared field, not in natural order.
C3_NullNeverEmitted ==
    IsObject =>
        LET ents == event.payload.ents
        IN /\ (hasKey(ents, sVal) /\ get(ents, sVal) = Null) => emitted = <<>>
           /\ ~hasKey(ents, sVal) =>
                \A i \in 1..Len(ents) :
                    ents[i].v = Null =>
                        \A j \in 1..Len(emitted) : ~EndsWith(emitted[j].f, ents[i].k)

\* C4: with an explicit fields list there is exactly one emission per
\* declared field present in the payload, in the order of the list, HTTP for
\* type "string" and UDP otherwise; absent and undeclared fields emit nothing.
C4_DeclaredPresentFieldsInOrder ==
    (IsMultiField /\ HasFieldsList) =>
        LET ents == event.payload.ents
            list == subscriptions[find(subscriptions, event.topic)].fields.list
            Present(f) == hasKey(ents, f.name)
            present == SelectSeq(list, Present)
        IN /\ Len(emitted) = Len(present)
           /\ \A i \in 1..Len(present) :
                /\ i <= Len(emitted)
                /\ emitted[i].ch = (IF present[i].type = sString THEN "http" ELSE "udp")
                /\ EndsWith(emitted[i].f, present[i].name)

\* C5: a single-field object with a val and no name is emitted under the
\* name "unknown": over HTTP for a string val, over UDP for a non-null other.
C5_DefaultNameUnknown ==
    (/\ IsObject
     /\ hasKey(event.payload.ents, sVal)
     /\ ~hasKey(event.payload.ents, sName)
     /\ get(event.payload.ents, sVal) # Null)
        => LET val == get(event.payload.ents, sVal)
           IN /\ Len(emitted) = 1
              /\ emitted[1].ch = (IF val.t = "str" THEN "http" ELSE "udp")
              /\ EndsWith(emitted[1].f, <<"u", "n", "k", "n", "o", "w", "n">>)
              /\ val.t = "str" => emitted[1].v = val.s

\* C6: for a multi-field object whose topic has no rule, or a rule without a
\* fields list, there is exactly one emission per non-null key, in key
\* order: an HTTP GET .../key/value for a string, a UDP datagram key=value
\* otherwise; {"temp":21,"label":"warm"} on "kitchen" without a rule gives
\* the datagram temp=21 and a GET whose path ends with /label/warm.
C6_OneEmissionPerNonNullKey ==
    (IsMultiField /\ ~HasFieldsList) =>
        LET NonNull(e) == e.v # Null
            nonNull == SelectSeq(event.payload.ents, NonNull)
        IN /\ raised = "none"
           /\ Len(emitted) = Len(nonNull)
           /\ \A i \in 1..Len(nonNull) :
                IF nonNull[i].v.t = "str"
                THEN /\ emitted[i].ch = "http"
                     /\ EndsWith(emitted[i].data,
                                 nonNull[i].k \o <<"/">> \o nonNull[i].v.s)
                ELSE /\ emitted[i].ch = "udp"
                     /\ EndsWith(emitted[i].data,
                                 nonNull[i].k \o <<"=">> \o Canonical(nonNull[i].v))
           /\ (/\ find(subscriptions, event.topic) = 0
               /\ event.topic = tKitchen
               /\ event.payload.ents = <<Entry(sTemp, Num(21)), Entry(sLabel, Str(sWarm))>>)
                => /\ emitted[1].data = sTemp \o <<"=", "2", "1">>
                   /\ EndsWith(emitted[2].data, <<"/">> \o sLabel \o <<"/">> \o sWarm)

\* C6 witness: the kitchen example has been routed without a matching rule.
C6_Witness ==
    /\ event.kind = "mqtt"
    /\ event.topic = tKitchen
    /\ find(subscriptions, event.topic) = 0
    /\ event.payload = Obj(<<Entry(sTemp, Num(21)), Entry(sLabel, Str(sWarm))>>)
    /\ Len(emitted) = 2

\* C7: the field name is prefixed with the rule's identifier if and only if
\* a rule matches the topic and declares a non-empty identifier: UDP sends
\* identifier_field, HTTP uses "identifier - field"; otherwise the field
\* name is sent unprefixed.
C7_PrefixIffIdentifierDeclared ==
    (IsMultiField /\ ~HasFieldsList) =>
        LET NonNull(e) == e.v # Null
            nonNull == SelectSeq(event.payload.ents, NonNull)
            r == find(subscriptions, event.topic)
            declared == /\ r # 0
                        /\ subscriptions[r].identifier.t = "str"
                        /\ subscriptions[r].identifier.s # <<>>
            Expected(ch, key) ==
                IF ~declared THEN key
                ELSE IF ch = "udp"
                THEN subscriptions[r].identifier.s \o <<"_">> \o key
                ELSE subscriptions[r].identifier.s \o <<" ", "-", " ">> \o key
        IN \A i \in 1..Len(emitted) :
              i <= Len(nonNull) =>
                  emitted[i].f = Expected(emitted[i].ch, nonNull[i].k)

\* C8: every datagram of the UDP emitter is the lower-cased field=value with
\* the value canonicalized: true/yes to 1, false/no/null/absent to 0, any
\* other value unchanged.
C8_DatagramCanonical ==
    /\ \A i \in 1..Len(emitted) :
          emitted[i].ch = "udp" =>
              /\ emitted[i].data
                    = toLowerCase(emitted[i].f \o <<"=">> \o emitted[i].v)
              /\ \A k \in 1..Len(emitted[i].data) :
                    \A u \in 1..26 : emitted[i].data[k] # UpperChars[u]
    /\ (IsMultiField /\ HasFieldsList) =>
          LET list == subscriptions[find(subscriptions, event.topic)].fields.list
          IN \A i \in 1..Len(list) :
                (i <= Len(emitted) /\ list[i].type # sString) =>
                    emitted[i].v = Canonical(get(event.payload.ents, list[i].name))
    /\ (/\ event.kind = "mqtt"
        /\ event.payload.kind = "bare"
        /\ event.payload.bare.t = "str")
          => /\ Len(emitted) = 1
             /\ emitted[1].v = Canonical(At(split(event.payload.bare.s, "="), 1))

\* C9: a datagram whose topic field is empty or missing is discarded: no
\* bus publish is issued for it.
C9_EmptyTopicDiscarded ==
    (/\ event.kind = "udp"
     /\ At(messageParts(trim(event.raw)), 0) \in {Str(<<>>), Undefined})
        => published = <<>>

\* C10: the qos of every bus publish of the UDP listener is an integer in
\* {0, 1, 2}; a token that does not parse to one is never published.
C10_QosInRange ==
    \A i \in 1..Len(published) :
        /\ published[i].qos.t = "num"
        /\ published[i].qos.n \in {0, 1, 2}

\* the fields of the handled datagram, after the logger prefix is dropped
Fields == messageParts(trim(event.raw))

\* the handled event is a datagram that decodes: its topic is not empty and
\* its qos, when given, is 0, 1 or 2
IsDecoded ==
    /\ event.kind = "udp"
    /\ Len(Fields) > 0 /\ Fields[1] # <<>>
    /\ Len(Fields) > 2 => Fields[3] \in {<<"0">>, <<"1">>, <<"2">>}

\* the handled datagram is a logger line: loggerPrefix, ';' and a body
IsLoggerLine ==
    /\ event.kind = "udp"
    /\ Len(event.raw) > Len(loggerPrefix)
    /\ SubSeq(event.raw, 1, Len(loggerPrefix) + 1) = loggerPrefix \o <<";">>

\* the body of a logger line
Body == SubSeq(event.raw, Len(loggerPrefix) + 2, Len(event.raw))

\* C11: in mode "json" the payload has a name key only when a name was
\* supplied: an empty name field gives {"ts":now,"val":v} without name.
C11_EmptyNameOmitted ==
    (/\ IsDecoded
     /\ Len(Fields) > 5
     /\ Fields[6] = sJson
     /\ Fields[5] = <<>>)
        => /\ Len(published) = 1
           /\ published[1].payload
                = Str(<<"{", "\"", "t", "s", "\"", ":">> \o NumToStr(event.now)
                      \o <<",", "\"", "v", "a", "l", "\"", ":">>
                      \o stringifyValue(parsedValue(Fields[2])) \o <<"}">>)

\* C12: a logger prefix before a datagram d changes nothing: the publish is
\* the one d alone gives, for every d.
C12_LoggerPrefixTransparent ==
    IsLoggerLine => published = <<onUdpMessage(Body, event.now)>>

\* C12 as amended: the same, for every d that does not begin with white
\* space (d is not itself a logger line and holds no line break).
C12_LoggerPrefixTransparentTrimmed ==
    (IsLoggerLine /\ (Body = <<>> \/ ~isSpace(Head(Body))))
        => /\ published = <<onUdpMessage(Body, event.now)>>
           /\ published[1].topic # Str(SubSeq(loggerPrefix, 1, 19))
           /\ published[1].topic # Str(<<"5">>)

\* C12 witness: the logger line of "sensor/temp;21" has been published at
\* topic "sensor/temp".
C12_Witness ==
    /\ event.kind = "udp"
    /\ event.raw = loggerPrefix \o <<";">> \o sSensor \o <<";", "2", "1">>
    /\ Len(published) = 1
    /\ published[1].topic = Str(sSensor)
    /\ published[1].payload = Num(21)

\* C13: a decoded datagram causes exactly one bus publish, at its topic with
\* its qos and retain (0 and false when omitted, retain true only for the
\* token "true"), and no UDP datagram or HTTP request.
C13_OnePublishPerDatagram ==
    IsDecoded =>
        /\ Len(published) = 1
        /\ published[1].topic = Str(Fields[1])
        /\ published[1].qos =
              (IF Len(Fields) > 2 THEN Num(digitValue(Fields[3][1])) ELSE Num(0))
        /\ published[1].retain = (Len(Fields) > 3 /\ Fields[4] = sTrue)
        /\ emitted = <<>>
        /\ pending = <<>>

\* C13 witness: a datagram with qos 2 and retain "false", and one with only
\* a topic and a value, have been published.
C13_Witness ==
    /\ IsDecoded
    /\ Len(published) = 1
    /\ \/ Len(Fields) > 3 /\ Fields[3] = <<"2">> /\ Fields[4] = sFalse
       \/ Len(Fields) = 2 /\ published[1].qos = Num(0)

\* the strings of parts joined by sep
RECURSIVE Join(_, _)
Join(parts, sep) ==
    IF parts = <<>> THEN <<>>
    ELSE IF Len(parts) = 1 THEN parts[1]
    ELSE parts[1] \o sep \o Join(Tail(parts), sep)

\* the value token of the handled datagram
ValueToken == IF Len(Fields) > 1 THEN Fields[2] ELSE <<>>

\* C14: the mode field changes only the payload: the same datagram with any
\* other mode is published at the same topic with the same qos and retain;
\* with mode "json_raw", or no mode field, the payload is the coerced value
\* itself, not its serialization.
C14_ModeOnlyShapesPayload ==
    event.kind = "udp" =>
        LET all == split(trim(event.raw), ";")
            at == Len(all) - Len(Fields) + 6
        IN /\ Len(published) = 1
           /\ Len(Fields) > 5 =>
                \A mode \in Tokens(5) :
                    LET other == onUdpMessage(Join([all EXCEPT ![at] = mode], <<";">>),
                                              event.now)
                    IN /\ other.topic = published[1].topic
                       /\ other.qos = published[1].qos
                       /\ other.retain = published[1].retain
           /\ (Len(Fields) <= 5 \/ Fields[6] = sJsonRaw) =>
                /\ published[1].payload = parsedValue(ValueToken)
                /\ ValueToken = <<"2", "1">> => published[1].payload = Num(21)
                /\ ValueToken = <<"o", "n">> => published[1].payload = Str(<<"o", "n">>)

\* C14 witness: a datagram with value 21 and mode "json_raw" has been
\* published with the number 21 as its payload.
C14_Witness ==
    /\ event.kind = "udp"
    /\ Len(Fields) > 5
    /\ Fields[6] = sJsonRaw
    /\ Fields[2] = <<"2", "1">>
    /\ Len(published) = 1
    /\ published[1].payload = Num(21)

\* C15: the value token is coerced so: empty to the empty string, "true" to
\* 1, "false" to 0, a numeric-looking token (a signed run of digits) to its
\* number, any other token to the same string.
C15_ValueCoercion ==
    (IsDecoded /\ (Len(Fields) <= 5 \/ Fields[6] # sJson)) =>
        LET v == ValueToken
            body == IF v # <<>> /\ Head(v) \in {"-", "+"} THEN Tail(v) ELSE v
            numeric == body # <<>> /\ \A i \in 1..Len(body) : isDigit(body[i])
        IN /\ Len(published) = 1
           /\ published[1].payload =
                (IF v = <<>> THEN Str(<<>>)
                 ELSE IF v = sTrue THEN Num(1)
                 ELSE IF v = sFalse THEN Num(0)
                 ELSE IF numeric
                 THEN Num((IF Head(v) = "-" THEN 0 - 1 ELSE 1) * digitsValue(body))
                 ELSE Str(v))

\* the payload value the i-th emission of the handled bus message is for
SourceValue(i) ==
    LET ents == event.payload.ents
        NonNull(e) == e.v # Null
    IN IF hasKey(ents, sVal) THEN get(ents, sVal)
       ELSE IF HasFieldsList
       THEN get(ents, subscriptions[find(subscriptions, event.topic)].fields.list[i].name)
       ELSE SelectSeq(ents, NonNull)[i].v

\* C16: on every path of the Router a field whose value is a string is
\* emitted via HTTP and a field whose value is not a string via UDP.
C16_RoutingByValueType ==
    IsObject =>
        \A i \in 1..Len(emitted) :
            (emitted[i].ch = "http") <=> (SourceValue(i).t = "str")

\* C16 as amended: routing is by value type on the single-field and the
\* natural-order path, where no field is emitted twice; on the
\* explicit-fields path the declared type decides.
C16_RoutingByValueOrDeclaredType ==
    IsObject =>
        LET ents == event.payload.ents
            NonNull(e) == e.v # Null
        IN /\ (IsObject /\ hasKey(ents, sVal)) =>
                /\ Len(emitted) = 1
                /\ (emitted[1].ch = "http") <=> (get(ents, sVal).t = "str")
                /\ (emitted[1].ch = "udp") <=> (get(ents, sVal).t # "str")
           /\ (IsMultiField /\ ~HasFieldsList) =>
                /\ Len(emitted) = Len(SelectSeq(ents, NonNull))
                /\ \A i \in 1..Len(emitted) :
                      /\ (emitted[i].ch = "http") <=> (SourceValue(i).t = "str")
                      /\ (emitted[i].ch = "udp") <=> (SourceValue(i).t # "str")
           /\ (IsMultiField /\ HasFieldsList) =>
                LET list == subscriptions[find(subscriptions, event.topic)].fields.list
                IN /\ Len(emitted) = Len(list)
                   /\ \A i \in 1..Len(list) :
                         /\ (emitted[i].ch = "http") <=> (list[i].type = sString)
                         /\ (emitted[i].ch = "udp") <=> (list[i].type # sString)

\* C16 witness: a single-field object with a string val has gone to the HTTP
\* emitter.
C16_Witness ==
    /\ IsObject
    /\ hasKey(event.payload.ents, sVal)
    /\ get(event.payload.ents, sVal).t = "str"
    /\ Len(emitted) = 1
    /\ emitted[1].ch = "http"

\* the handled event is the callback of a transmission
IsCallback == event.kind \in {"sent", "settled"}

\* C17: a failed emission is only logged: nothing is raised, the process
\* keeps running, and the emissions of all fields of a bus message are
\* initiated whatever happens to the others.
C17_FailureOnlyLogged ==
    /\ (IsCallback /\ completed.error) =>
          /\ completed.logged
          /\ raised = "none"
          /\ running
    /\ event.kind = "mqtt" =>
          /\ Len(pending) >= Len(emitted)
          /\ \A i \in 1..Len(emitted) :
                pending[Len(pending) - Len(emitted) + i].ch = emitted[i].ch

\* C17 witness: a UDP send has failed while other transmissions are in flight.
C17_Witness ==
    /\ IsCallback
    /\ completed.ch = "udp"
    /\ completed.error
    /\ running
    /\ pending # <<>>

\* C18: every emission is attempted exactly once: a bus message starts one
\* transmission per emission, and a callback, also after a failure, starts
\* none.
C18_NoRetry ==
    [][/\ \A i \in 1..Len(pending') : pending'[i].attempts = 1
       /\ (event.kind = "none" /\ event'.kind = "mqtt") =>
              Len(pending') = Len(pending) + Len(emitted')
       /\ (event.kind = "none" /\ event'.kind \in {"sent", "settled"}) =>
              /\ Len(pending') = Len(pending) - 1
              /\ completed'.attempts = 1
       /\ (event.kind = "none" /\ event'.kind = "udp") => pending' = pending
       /\ event.kind # "none" => pending' = pending]_vars

\* C18 witness: an HTTP request has failed after its one attempt and nothing
\* is in flight.
C18_Witness ==
    /\ IsCallback
    /\ completed.ch = "http"
    /\ completed.error
    /\ completed.attempts = 1
    /\ pending = <<>>

\* C19: the subscription table never changes, and what a handler emits or
\* publishes is determined by its event and the table alone, whatever was
\* handled before and whatever is in flight.
C19_HandlersIndependent ==
    [][/\ subscriptions' = subscriptions
       /\ (event.kind = "none" /\ event'.kind = "mqtt") =>
              /\ emitted' = onMqttMessage(subscriptions, event'.topic, event'.payload).ems
              /\ published' = <<>>
       /\ (event.kind = "none" /\ event'.kind = "udp") =>
              /\ published' = <<onUdpMessage(event'.raw, event'.now)>>
              /\ emitted' = <<>>]_vars

\* C19 witness: a bus message has been routed while transmissions of an
\* earlier event were in flight.
C19_Witness ==
    /\ event.kind = "mqtt"
    /\ emitted # <<>>
    /\ Len(pending) > Len(emitted)

\* C20: every UDP send in flight has its own open socket, and the socket of
\* a completed send has been closed exactly once, with or without an error;
\* with no send in flight no emitter socket is open.
C20_SocketClosedOnce ==
    /\ \A i \in 1..Len(pending) :
          IF pending[i].ch = "udp"
          THEN pending[i].socket = "open" /\ pending[i].closes = 0
          ELSE pending[i].socket = "none"
    /\ completed.ch = "udp" => (completed.socket = "closed" /\ completed.closes = 1)
    /\ (\A i \in 1..Len(pending) : pending[i].ch # "udp") => completed.socket # "open"
    /\ event.kind = "mqtt" =>
          \A i \in 1..Len(emitted) :
              emitted[i].ch = "udp" =>
                  pending[Len(pending) - Len(emitted) + i].socket = "open"

\* C20 witness: a failed UDP send has completed, its socket is closed and
\* nothing is in flight.
C20_Witness ==
    /\ IsCallback
    /\ completed.ch = "udp"
    /\ completed.error
    /\ completed.socket = "closed"
    /\ pending = <<>>

====
